---- MODULE Spec2Model ----
(***************************************************************************)
(* Model of tapas/run_task_main_edited.py: the prediction driver (main,    *)
(* _check_options, _train_and_predict, _predict, _predict_for_set) and the *)
(* table reconstruction of _predict_sequence_for_set.                      *)
(***************************************************************************)
EXTENDS Integers, Sequences, FiniteSets, TLC

\* Python's None where a name is expected
None == "None"
\* Python's None where a step or a checkpoint is expected
NoStep == -1
NoCheckpoint == <<>>

(* ---------------------------- bounds ---------------------------------- *)
\* calls of estimator.latest_checkpoint() explored in one run
MaxPolls == 3
\* the trainer saves checkpoints at steps 0, CkptStride, ..., MaxCkptIndex * CkptStride
MaxCkptIndex == 2
CkptStride == 5

\* FLAGS.max_seq_length: tokens per query
MaxSeqLength == 4
\* the largest row id of a table token
MaxRowId == 2
\* FLAGS.num_columns
NumColumns == 2
\* len(query['embeddings'][0])
LenEmbedding == 1
\* the most queries compute_prediction_sequence returns for one call
MaxQueries == 2
\* calls of _predict_sequence_for_set followed: test sets and checkpoints
MaxCalls == 2

(* ---------------------- program constants ------------------------------ *)
\* num_train_steps = 10 in test_mode
TestModeTrainSteps == 10
\* int(hparams['num_train_examples'] / train_batch_size) of the task's hparams
HparamsTrainSteps == 5

CkptSteps == {k * CkptStride : k \in 0..MaxCkptIndex}

(* ------------------------ enums and flags ------------------------------ *)
\* class Mode(enum.Enum)
Mode == {"CREATE_DATA", "TRAIN", "PREDICT_AND_EVALUATE", "EVALUATE", "PREDICT"}

\* class TestSet(enum.Enum), in iteration order
TestSet == <<"DEV", "TEST">>

\* members of tasks.Task: the four the driver handles and one it does not
HandledTasks == {"SQA", "WTQ", "WIKISQL", "WIKISQL_SUPERVISED"}
Task == HandledTasks \cup {"TABFACT"}

\* values of --task, --mode and --compression_type tried
TaskFlagValues == {"SQA", "WTQ", "TABFACT", "BOGUS"}
ModeFlagValues == {"CREATE_DATA", "TRAIN", "EVALUATE", "PREDICT",
                   "predict_and_evaluate", "BOGUS"}
CompressionFlagValues == {"", "GZIP", "ZLIB", "BZIP"}

\* str.upper() on the mode names tried
Upper(s) ==
  CASE s = "predict_and_evaluate" -> "PREDICT_AND_EVALUATE"
    [] s = "predict" -> "PREDICT"
    [] OTHER -> s

\* _to_tf_compression_type: the compression types that do not raise
KnownCompression(c) == c = "" \/ c = "GZIP" \/ c = "ZLIB"

(* --------------------------- file names -------------------------------- *)
\* task_utils.get_test_filename / get_dev_filename through _get_test_filename
TestFilename(t, test_set) ==
  IF test_set = "TEST" THEN <<t, "test">> ELSE <<t, "dev">>

TestExamplesFile(t, test_set) ==
  <<"tf_examples">> \o TestFilename(t, test_set) \o <<".tfrecord">>

TestInteractionsFile(t, test_set) ==
  <<"interactions">> \o TestFilename(t, test_set) \o <<".tfrecord">>

TestPredictionFile(t, test_set, is_sequence, global_step) ==
  LET suffix0 == IF global_step = NoStep THEN <<>> ELSE <<"_", ToString(global_step)>>
      suffix  == IF is_sequence THEN <<"_sequence">> \o suffix0 ELSE suffix0
  IN <<"model">> \o TestFilename(t, test_set) \o suffix \o <<".tsv">>

\* the name estimator.latest_checkpoint() returns for a step, split at '-'
CheckpointName(step) == <<"model.ckpt", ToString(step)>>

\* int(os.path.basename(checkpoint).split('-')[1])
CurrentStepOf(ckpt) == CHOOSE n \in 0..(MaxCkptIndex * CkptStride) : ToString(n) = ckpt[2]

(* ----------------------------- state ----------------------------------- *)
VARIABLES
  FLAGS,            \* the flag registry: task, mode, compression_type, loop_predict, test_mode, use_tpu
  inputs,           \* the input files that exist
  pc,               \* position of the run
  err,              \* the exception that ended the run, or None
  task, mode,       \* main's parsed task and mode
  model_dir_made,   \* file_utils.make_directories(model_dir) has run
  num_train_steps,  \* tapas_config.num_train_steps
  latest,           \* step of the newest checkpoint in model_dir, or NoStep
  checkpoint,       \* the loop's checkpoint
  prev_checkpoint,  \* the loop's prev_checkpoint
  current_step,     \* the loop's current_step
  todo,             \* the calls _predict still has to make in this pass
  files,            \* prediction files: name -> contents
  polls,            \* calls of estimator.latest_checkpoint() so far
  sleeps,           \* polls that ended in time.sleep
  predicted,        \* current_step of every completed _predict call, in order
  evaluated,        \* global_step of every completed _eval call
  result,           \* compute_prediction_sequence's result: the queries of the call
  qi,               \* position in result of the next query of the running loop
  calls,            \* completed calls of _predict_sequence_for_set
  query,            \* the loops' query: one element of result
  tphase,           \* position inside _predict_sequence_for_set's table code
  result_array,     \* the probability table of the query; the flattened embedding
                    \* table once line 539 rebinds the name
  embed_array,      \* the embedding sums of the query
  num_array,        \* the token counts of the query
  npy               \* the array files that exist in output_dir, by name: probs.npy,
                    \* query.npy, embeds.npy

driverVars == <<FLAGS, inputs, pc, err, task, mode, model_dir_made, num_train_steps,
                latest, checkpoint, prev_checkpoint, current_step, todo, files,
                polls, sleeps, predicted, evaluated>>
tableVars == <<result, qi, calls, query, tphase, result_array, embed_array, num_array,
               npy>>
vars == <<driverVars, tableVars>>

InputFileNames(t) ==
  {TestExamplesFile(t, "DEV"), TestExamplesFile(t, "TEST"), TestInteractionsFile(t, "DEV")}

TableIdle ==
  /\ result = <<>>
  /\ qi = 0
  /\ calls = 0
  /\ query = <<>>
  /\ tphase = "idle"
  /\ result_array = <<>>
  /\ embed_array = <<>>
  /\ num_array = <<>>
  /\ npy = <<>>

Init ==
  /\ FLAGS \in [task : TaskFlagValues, mode : ModeFlagValues,
                compression_type : CompressionFlagValues,
                loop_predict : BOOLEAN, test_mode : BOOLEAN, use_tpu : BOOLEAN]
  /\ inputs \in SUBSET InputFileNames(FLAGS.task)
  /\ pc = "main"
  /\ err = None
  /\ task = None
  /\ mode = None
  /\ model_dir_made = FALSE
  /\ num_train_steps = NoStep
  /\ latest = NoStep
  /\ checkpoint = NoCheckpoint
  /\ prev_checkpoint = NoCheckpoint
  /\ current_step = NoStep
  /\ todo = <<>>
  /\ files = <<>>
  /\ polls = 0
  /\ sleeps = 0
  /\ predicted = <<>>
  /\ evaluated = {}
  /\ TableIdle

Raise(e) ==
  /\ pc' = "error"
  /\ err' = e

(* ------------------------------ main ----------------------------------- *)
\* main: tasks.Task[FLAGS.task], Mode[FLAGS.mode.upper()]
MainParseFlags ==
  /\ pc = "main"
  /\ IF FLAGS.task \notin Task
       THEN Raise("KeyError") /\ UNCHANGED <<task, mode>>
     ELSE IF Upper(FLAGS.mode) \notin Mode
       THEN Raise("KeyError") /\ task' = FLAGS.task /\ UNCHANGED mode
     ELSE /\ task' = FLAGS.task
          /\ mode' = Upper(FLAGS.mode)
          /\ pc' = "check_options"
          /\ UNCHANGED err
  /\ UNCHANGED <<FLAGS, inputs, model_dir_made, num_train_steps, latest, checkpoint,
                 prev_checkpoint, current_step, todo, files, polls, sleeps,
                 predicted, evaluated, tableVars>>

\* _check_options(output_dir, task, mode)
CheckOptionsRaises(t, m) ==
  /\ m # "CREATE_DATA"
  /\ \/ /\ m \in {"PREDICT_AND_EVALUATE", "EVALUATE"}
        /\ TestInteractionsFile(t, "DEV") \notin inputs
     \/ TestExamplesFile(t, "DEV") \notin inputs

CheckOptions ==
  /\ pc = "check_options"
  /\ IF CheckOptionsRaises(task, mode)
       THEN Raise("ValueError")
       ELSE pc' = "dispatch" /\ UNCHANGED err
  /\ UNCHANGED <<FLAGS, inputs, task, mode, model_dir_made, num_train_steps, latest,
                 checkpoint, prev_checkpoint, current_step, todo, files, polls,
                 sleeps, predicted, evaluated, tableVars>>

\* a faulty dispatch: main lets TRAIN through as well
PredictiveModeWithTrain(m) == m \in {"PREDICT_AND_EVALUATE", "PREDICT", "TRAIN"}

\* main: if mode in (Mode.PREDICT_AND_EVALUATE, Mode.PREDICT) ... else raise
PredictiveMode(m) == m \in {"PREDICT_AND_EVALUATE", "PREDICT"}

MainDispatch ==
  /\ pc = "dispatch"
  /\ IF PredictiveMode(mode)
       THEN pc' = "train_and_predict" /\ UNCHANGED err
       ELSE Raise("ValueError")
  /\ UNCHANGED <<FLAGS, inputs, task, mode, model_dir_made, num_train_steps, latest,
                 checkpoint, prev_checkpoint, current_step, todo, files, polls,
                 sleeps, predicted, evaluated, tableVars>>

(* ----------------------- _train_and_predict ---------------------------- *)
\* up to the loop: make_directories, the task branch, num_train_steps, the estimator,
\* the mode branch and prev_checkpoint = None
TrainAndPredictSetup ==
  /\ pc = "train_and_predict"
  /\ model_dir_made' = TRUE
  /\ IF task \notin HandledTasks
       THEN Raise("ValueError") /\ UNCHANGED <<num_train_steps, prev_checkpoint>>
     ELSE /\ num_train_steps' = IF FLAGS.test_mode THEN TestModeTrainSteps
                                                   ELSE HparamsTrainSteps
          /\ IF mode = "PREDICT_AND_EVALUATE" \/ mode = "PREDICT"
               THEN pc' = "poll" /\ prev_checkpoint' = NoCheckpoint /\ UNCHANGED err
               ELSE Raise("ValueError") /\ UNCHANGED prev_checkpoint
  /\ UNCHANGED <<FLAGS, inputs, task, mode, latest, checkpoint, current_step, todo,
                 files, polls, sleeps, predicted, evaluated, tableVars>>

\* estimator.latest_checkpoint()
LatestCheckpoint == IF latest = NoStep THEN NoCheckpoint ELSE CheckpointName(latest)

\* the calls one _predict makes, in order: <<is_sequence, test_set>>
PredictCalls(t, use_tpu) ==
  <<  <<FALSE, TestSet[1]>>, <<FALSE, TestSet[2]>>  >>
  \o (IF t = "SQA" /\ ~use_tpu
        THEN <<  <<TRUE, TestSet[1]>>, <<TRUE, TestSet[2]>>  >>
        ELSE <<>>)

\* a faulty test: the missing checkpoint is not detected
NoCheckpointFoundNever(loop_predict, ckpt) == FALSE

\* if not loop_predict and not checkpoint: raise ValueError('No checkpoint found ...')
NoCheckpointFound(loop_predict, ckpt) == ~loop_predict /\ ckpt = NoCheckpoint

\* if loop_predict and checkpoint == prev_checkpoint: sleep and continue
SleepAndRetry(loop_predict, ckpt, prev) == loop_predict /\ ckpt = prev

\* one pass of the while loop up to the call of _predict
PollCheckpoint ==
  /\ pc = "poll"
  /\ polls < MaxPolls
  /\ polls' = polls + 1
  /\ checkpoint' = LatestCheckpoint
  /\ IF NoCheckpointFound(FLAGS.loop_predict, checkpoint')
       THEN Raise("ValueError") /\ UNCHANGED <<sleeps, current_step, todo>>
     ELSE IF SleepAndRetry(FLAGS.loop_predict, checkpoint', prev_checkpoint)
       THEN /\ sleeps' = sleeps + 1
            /\ UNCHANGED <<pc, err, current_step, todo>>
     ELSE IF checkpoint' = NoCheckpoint
       \* os.path.basename(None)
       THEN Raise("TypeError") /\ UNCHANGED <<sleeps, current_step, todo>>
     ELSE /\ current_step' = CurrentStepOf(checkpoint')
          /\ todo' = PredictCalls(task, FLAGS.use_tpu)
          /\ pc' = "predict"
          /\ UNCHANGED <<err, sleeps>>
  /\ UNCHANGED <<FLAGS, inputs, task, mode, model_dir_made, num_train_steps, latest,
                 prev_checkpoint, files, predicted, evaluated, tableVars>>

\* what estimator.predict and write_predictions put into a prediction file: the
\* predictions of the checkpoint the estimator loads, which is the newest one in
\* model_dir when predict runs (no checkpoint_path is passed)
Predictions(test_set, is_sequence, complete) ==
  [ckpt_step |-> latest, test_set |-> test_set, is_sequence |-> is_sequence,
   complete |-> complete]

\* tf.io.gfile.copy(src, dst, overwrite=True)
Copy(fs, src, dst) == (dst :> fs[src]) @@ fs

\* estimator.predict can read the examples
Readable(test_set) ==
  /\ KnownCompression(FLAGS.compression_type)
  /\ TestExamplesFile(task, test_set) \in inputs

\* the end of _predict_for_set and of _predict_sequence_for_set: write_predictions
\* to prediction_file, then the copy to other_prediction_file
WriteAndCopy(test_set, is_sequence) ==
  LET prediction_file == TestPredictionFile(task, test_set, is_sequence, current_step)
      other_prediction_file == TestPredictionFile(task, test_set, is_sequence, NoStep)
      written == (prediction_file :> Predictions(test_set, is_sequence, TRUE)) @@ files
  IN files' = Copy(written, prediction_file, other_prediction_file)

\* a call of _predict returns when its last call has returned
CallReturns ==
  /\ todo' = Tail(todo)
  /\ IF Tail(todo) = <<>>
       THEN pc' = "eval" /\ predicted' = Append(predicted, current_step)
       ELSE UNCHANGED <<pc, predicted>>
  /\ UNCHANGED err

\* the framework raises inside estimator.predict or write_predictions: the exception
\* propagates; prediction_file is untouched or left incomplete, and is not copied
CallRaises(test_set, is_sequence) ==
  LET prediction_file == TestPredictionFile(task, test_set, is_sequence, current_step)
  IN /\ Raise("PredictError")
     /\ \/ files' = files
        \/ files' = (prediction_file :> Predictions(test_set, is_sequence, FALSE)) @@ files
     /\ UNCHANGED <<todo, predicted>>

\* _predict_for_set
PredictForSet ==
  /\ pc = "predict"
  /\ todo # <<>>
  /\ Head(todo)[1] = FALSE
  /\ LET test_set == Head(todo)[2]
     IN \/ Readable(test_set) /\ WriteAndCopy(test_set, FALSE) /\ CallReturns
        \/ CallRaises(test_set, FALSE)
  /\ UNCHANGED <<FLAGS, inputs, task, mode, model_dir_made, num_train_steps, latest,
                 checkpoint, prev_checkpoint, current_step, polls, sleeps, evaluated,
                 tableVars>>

\* _predict_sequence_for_set, without the dumped arrays
PredictSequenceForSet ==
  /\ pc = "predict"
  /\ todo # <<>>
  /\ Head(todo)[1] = TRUE
  /\ LET test_set == Head(todo)[2]
     IN \/ Readable(test_set) /\ WriteAndCopy(test_set, TRUE) /\ CallReturns
        \/ CallRaises(test_set, TRUE)
  /\ UNCHANGED <<FLAGS, inputs, task, mode, model_dir_made, num_train_steps, latest,
                 checkpoint, prev_checkpoint, current_step, polls, sleeps, evaluated,
                 tableVars>>

\* if mode == Mode.PREDICT_AND_EVALUATE: _eval(...): the module defines no _eval,
\* so the call raises NameError
Eval ==
  /\ pc = "eval"
  /\ IF mode = "PREDICT_AND_EVALUATE"
       THEN Raise("NameError")
       ELSE pc' = "loop_end" /\ UNCHANGED err
  /\ UNCHANGED <<FLAGS, inputs, task, mode, model_dir_made, num_train_steps, latest,
                 checkpoint, prev_checkpoint, current_step, todo, files, polls,
                 sleeps, predicted, evaluated, tableVars>>

\* if not loop_predict or current_step >= tapas_config.num_train_steps: break
LoopEnd ==
  /\ pc = "loop_end"
  /\ IF ~FLAGS.loop_predict \/ current_step >= num_train_steps
       THEN pc' = "done"
       ELSE pc' = "poll"
  /\ UNCHANGED <<FLAGS, inputs, err, task, mode, model_dir_made, num_train_steps,
                 latest, checkpoint, prev_checkpoint, current_step, todo, files,
                 polls, sleeps, predicted, evaluated, tableVars>>

\* the training job, which runs beside the driver, saves a newer checkpoint
\* (what estimator.latest_checkpoint() reads)
SaveCheckpoint ==
  /\ pc \notin {"done", "error"}
  /\ \E s \in CkptSteps : s > latest /\ latest' = s
  /\ UNCHANGED <<FLAGS, inputs, pc, err, task, mode, model_dir_made, num_train_steps,
                 checkpoint, prev_checkpoint, current_step, todo, files, polls,
                 sleeps, predicted, evaluated, tableVars>>

Next ==
  \/ MainParseFlags
  \/ CheckOptions
  \/ MainDispatch
  \/ TrainAndPredictSetup
  \/ PollCheckpoint
  \/ PredictForSet
  \/ PredictSequenceForSet
  \/ Eval
  \/ LoopEnd
  \/ SaveCheckpoint

Spec == Init /\ [][Next]_vars

\* the driver is one sequential process: while it has a step to take, it takes one
FairSpec == Spec /\ WF_vars(Next)

(* ======================= claims about the driver ====================== *)
Written == DOMAIN files
InLoop == pc \in {"poll", "predict", "eval", "loop_end", "done"}
Distinct(seq) == \A i, j \in DOMAIN seq : i # j => seq[i] # seq[j]

\* C1: in loop mode a prediction pass runs only on a new checkpoint, so no checkpoint
\* (no current_step) is predicted twice.
C1_NoCheckpointPredictedTwice ==
  FLAGS.loop_predict => Distinct(predicted)

\* a file the run reads does not exist
RequiredInputMissing ==
  \/ TestExamplesFile(task, "DEV") \notin inputs
  \/ TestExamplesFile(task, "TEST") \notin inputs
  \/ mode = "PREDICT_AND_EVALUATE" /\ TestInteractionsFile(task, "DEV") \notin inputs

\* C2: in mode PREDICT or PREDICT_AND_EVALUATE, when a file the run reads is missing,
\* _check_options raises before the estimator is built, before any checkpoint is
\* polled and before any prediction file is written.
C2_FailsFastOnMissingInput ==
  (PredictiveMode(mode) /\ RequiredInputMissing) =>
     /\ ~InLoop
     /\ pc = "error" => err = "ValueError"
     /\ ~model_dir_made
     /\ polls = 0
     /\ Written = {}

InvalidConfiguration ==
  \/ FLAGS.task \notin Task
  \/ Upper(FLAGS.mode) \notin Mode
  \/ ~KnownCompression(FLAGS.compression_type)

\* C3: with an unknown task, mode or compression type main fails before any
\* checkpoint is polled and before any prediction is run or written.
C3_FailsFastOnInvalidConfiguration ==
  InvalidConfiguration =>
     /\ polls = 0
     /\ pc \notin {"predict", "eval", "loop_end", "done"}
     /\ Written = {}

\* C4: in loop mode the loop exits normally only right after a pass on a checkpoint
\* with step >= num_train_steps, and after a pass on a smaller step it goes on to
\* poll again. (The claim's last part, termination once such a checkpoint is the
\* latest one, is a liveness statement about the same loop.)
C4_LoopRunsUntilNumTrainSteps ==
  [][FLAGS.loop_predict =>
       /\ (pc # "done" /\ pc' = "done") =>
             (pc = "loop_end" /\ current_step >= num_train_steps)
       /\ (pc = "eval" /\ current_step < num_train_steps) =>
             pc' \in {"eval", "loop_end"}
       /\ (pc = "loop_end" /\ current_step < num_train_steps) =>
             pc' \in {"loop_end", "poll"}]_vars

\* the last part of C4 where no _eval call is made: in mode PREDICT, once the loop
\* polls with the latest checkpoint at num_train_steps or beyond, the run ends
C4_TerminatesInPredictMode ==
  (/\ FLAGS.loop_predict
   /\ mode = "PREDICT"
   /\ pc = "poll"
   /\ polls < MaxPolls
   /\ latest >= num_train_steps) ~> (pc \in {"done", "error"})

\* C5: main starts the prediction loop exactly for PREDICT and PREDICT_AND_EVALUATE;
\* for the other three modes the run ends with a ValueError, and never creates the
\* model directory, polls a checkpoint or writes a prediction file.
C5_LoopOnlyInPredictiveModes ==
  /\ InLoop => mode \in {"PREDICT", "PREDICT_AND_EVALUATE"}
  /\ mode \in {"CREATE_DATA", "TRAIN", "EVALUATE"} =>
        /\ pc \in {"check_options", "dispatch", "error"}
        /\ pc = "error" => err = "ValueError"
        /\ ~model_dir_made
        /\ polls = 0
        /\ Written = {}
  /\ (mode \in {"PREDICT", "PREDICT_AND_EVALUATE"} /\ pc = "error" /\ polls = 0) =>
        (CheckOptionsRaises(task, mode) \/ task \notin HandledTasks)

\* a run in a non-predictive mode passed _check_options and was ended by main
C5_Witness ==
  /\ mode = "EVALUATE"
  /\ ~CheckOptionsRaises(task, mode)
  /\ pc = "error"
  /\ err = "ValueError"

\* the file of a test set and kind for a step holds the complete predictions of the
\* checkpoint of that step, and the file without a step suffix is a copy of it
HoldsStep(test_set, is_sequence, step) ==
  LET f == TestPredictionFile(task, test_set, is_sequence, step)
      g == TestPredictionFile(task, test_set, is_sequence, NoStep)
  IN /\ f \in Written
     /\ files[f] = [ckpt_step |-> step, test_set |-> test_set,
                    is_sequence |-> is_sequence, complete |-> TRUE]
     /\ g \in Written
     /\ files[g] = files[f]

\* the step-suffixed files of the steps other than s
FilesOfOtherSteps(s) ==
  {TestPredictionFile(task, TestSet[k], q, n) :
     k \in DOMAIN TestSet, q \in BOOLEAN, n \in CkptSteps \ {s}}

\* C6: after every completed prediction pass, for each test set and each kind of file
\* the pass writes (plain, and sequence where _predict makes the sequence calls) the
\* step-suffixed file holds that step's predictions and the file without a suffix is
\* an identical copy of it; a pass for one step never overwrites the step-suffixed
\* file of another step.
C6_FilesPerSetAndStep ==
  /\ [](pc = "eval" =>
          \A k \in DOMAIN PredictCalls(task, FLAGS.use_tpu) :
             LET call == PredictCalls(task, FLAGS.use_tpu)[k]
             IN HoldsStep(call[2], call[1], current_step))
  /\ [][pc = "predict" =>
          \A f \in FilesOfOtherSteps(current_step) \cap Written :
             f \in DOMAIN files' /\ files'[f] = files[f]]_vars

\* C7: in mode PREDICT_AND_EVALUATE every prediction pass is followed by an
\* evaluation for the same global step and the run then reaches the termination
\* check; in mode PREDICT no evaluation is ever run.
C7_EvaluationFollowsPrediction ==
  /\ [][(pc = "eval" /\ mode = "PREDICT_AND_EVALUATE" /\ pc' # pc) =>
          (pc' = "loop_end" /\ current_step \in evaluated')]_vars
  /\ [](mode = "PREDICT" => evaluated = {})

\* C8: no prediction pass runs without a checkpoint. When latest_checkpoint() returns
\* none, the run ends with ValueError and has written nothing if loop_predict is
\* false, and sleeps and polls again if it is true; whenever _predict runs, the
\* step parsed from the checkpoint name is defined.
C8_NoPredictionWithoutCheckpoint ==
  /\ [](pc = "predict" =>
          /\ checkpoint # NoCheckpoint
          /\ current_step \in CkptSteps
          /\ checkpoint = CheckpointName(current_step))
  /\ [](err # "TypeError")
  /\ [][(pc = "poll" /\ polls' = polls + 1 /\ latest = NoStep) =>
          IF FLAGS.loop_predict
            THEN pc' = "poll" /\ sleeps' = sleeps + 1 /\ err' = None
                 /\ files' = files /\ predicted' = predicted
            ELSE pc' = "error" /\ err' = "ValueError" /\ DOMAIN files' = {}]_vars

\* the loop slept on a missing checkpoint and later predicted on a checkpoint
C8_Witness ==
  /\ sleeps > 0
  /\ pc = "predict"
  /\ current_step # NoStep

\* the run without loop_predict found no checkpoint
C8_WitnessNoLoop ==
  /\ ~FLAGS.loop_predict
  /\ polls = 1
  /\ pc = "error"
  /\ err = "ValueError"

(* ============ _predict_sequence_for_set: the dumped tables ============= *)
\* Python's seq[k] and seq[k] = v, a negative k counting from the end
PyIndex(seq, k) == IF k < 0 THEN k + Len(seq) + 1 ELSE k + 1
PyAt(seq, k) == seq[PyIndex(seq, k)]
PySet2(arr, r, c, v) ==
  [arr EXCEPT ![PyIndex(arr, r)] = [@ EXCEPT ![PyIndex(@, c)] = v]]

\* np.zeros((num_rows, num_columns)) and np.zeros(len_embedding)
Zeros2(num_rows, num_columns, zero) ==
  [r \in 1..num_rows |-> [c \in 1..num_columns |-> zero]]
ZeroVector(len) == [k \in 1..len |-> 0]
VectorAdd(a, b) == [k \in DOMAIN a |-> a[k] + b[k]]

RECURSIVE SeqMax(_)
\* max(query['row_ids'])
SeqMax(seq) ==
  IF Len(seq) = 1 THEN seq[1]
  ELSE LET m == SeqMax(Tail(seq)) IN IF seq[1] > m THEN seq[1] ELSE m

RECURSIVE GCD(_, _)
GCD(a, b) == IF b = 0 THEN a ELSE GCD(b, a % b)

\* the float a / n of numpy, as a fraction in lowest terms; 0 / 0 is nan
NaN == <<0, 0>>
Quotient(a, n) == IF n = 0 THEN NaN ELSE <<a \div GCD(a, n), n \div GCD(a, n)>>
\* embed / num and query_array / query_array_num, by component
VectorQuotient(vec, n) == [k \in DOMAIN vec |-> Quotient(vec[k], n)]

\* the token at index i starts a cell: the condition of the probability loop
StartsCell(q, i) ==
  /\ PyAt(q.segment_ids, i) = 1
  /\ \/ ~(PyAt(q.row_ids, i - 1) = PyAt(q.row_ids, i))
     \/ ~(PyAt(q.column_ids, i - 1) = PyAt(q.column_ids, i))

\* the column index the probability loop writes to: query['column_ids'][i]-1
ProbColumn(q, i) == PyAt(q.column_ids, i) - 1

\* the column index the embedding loop writes to:
\* int(FLAGS.column_order[query['column_ids'][i]-1])-1
EmbedColumn(q, i) == PyAt(FLAGS.column_order, PyAt(q.column_ids, i) - 1) - 1

RECURSIVE ProbLoop(_, _, _)
\* for i in range(1, FLAGS.max_seq_length) of the probability table
ProbLoop(q, i, arr) ==
  IF i >= FLAGS.max_seq_length THEN arr
  ELSE LET row == PyAt(q.row_ids, i)
           prob == PyAt(q.probabilities, i)
       IN ProbLoop(q, i + 1,
                   IF StartsCell(q, i)
                     THEN PySet2(arr, row - 1, ProbColumn(q, i), prob)
                     ELSE arr)

\* the probability table of one query
ProbTable(q) ==
  ProbLoop(q, 1, Zeros2(SeqMax(q.row_ids), FLAGS.num_columns, 0))

RECURSIVE EmbedLoop(_, _, _)
\* for i in range(1, FLAGS.max_seq_length) of the embedding table; st holds the
\* loop's embed_array, num_array, row, column, query_array, query_array_num and
\* at_beginning
EmbedLoop(q, i, st) ==
  IF i >= FLAGS.max_seq_length THEN st
  ELSE
    LET seg == PyAt(q.segment_ids, i)
        emb == PyAt(q.embeddings, i)
        st1 == IF seg = 0 /\ st.at_beginning /\ i # 0 /\ PyAt(q.segment_ids, i + 1) # 1
                 THEN [st EXCEPT !.query_array = VectorAdd(@, emb),
                                 !.query_array_num = @ + 1]
                 ELSE st
        moved == seg = 1 /\ ~(st1.row = PyAt(q.row_ids, i) - 1 /\ st1.column = EmbedColumn(q, i))
        row == IF moved THEN PyAt(q.row_ids, i) - 1 ELSE st1.row
        column == IF moved THEN EmbedColumn(q, i) ELSE st1.column
        st2 == IF seg = 1
                 THEN [st1 EXCEPT
                         !.at_beginning = FALSE,
                         !.row = row,
                         !.column = column,
                         !.embed_array = PySet2(@, row, column,
                                                VectorAdd(PyAt(PyAt(@, row), column), emb)),
                         !.num_array = PySet2(@, row, column,
                                              PyAt(PyAt(@, row), column) + 1)]
                 ELSE st1
    IN EmbedLoop(q, i + 1, st2)

\* the embedding loop of one query, from its initial values
EmbedTable(q) ==
  LET len_embedding == Len(q.embeddings[1])
      num_rows == SeqMax(q.row_ids)
  IN EmbedLoop(q, 1,
       [embed_array |-> Zeros2(num_rows, FLAGS.num_columns, ZeroVector(len_embedding)),
        num_array |-> Zeros2(num_rows, FLAGS.num_columns, 0),
        row |-> 0, column |-> 0,
        query_array |-> ZeroVector(len_embedding), query_array_num |-> 0,
        at_beginning |-> TRUE])

\* np.array([embed/num for (embed_row, num_row) in zip(embed_array, num_array)
\*           for (embed, num) in zip(embed_row, num_row)])
FlatQuotients(embeds, nums) ==
  LET nc == FLAGS.num_columns
  IN [k \in 1..(Len(embeds) * nc) |->
        VectorQuotient(embeds[((k - 1) \div nc) + 1][((k - 1) % nc) + 1],
                       nums[((k - 1) \div nc) + 1][((k - 1) % nc) + 1])]

(* ----------------------------- queries --------------------------------- *)
\* values of the embedding components tried
EmbeddingValues == {1, 2}
\* the orders of the columns tried: the permutations of 1..NumColumns
ColumnOrders ==
  {o \in [1..NumColumns -> 1..NumColumns] : \A a, b \in 1..NumColumns : a # b => o[a] # o[b]}

Cells == (0..MaxRowId) \X (1..NumColumns)
RowMajor(cells) ==
  \A k \in 1..(Len(cells) - 1) :
     \/ cells[k][1] < cells[k + 1][1]
     \/ cells[k][1] = cells[k + 1][1] /\ cells[k][2] <= cells[k + 1][2]

\* a query as the tokenizer lays it out: [CLS] and nq question tokens (segment 0),
\* then the table tokens (segment 1) in row-major order, the header with row id 0,
\* then padding; the token at index i carries the probability i + 1, and its
\* embedding is drawn from EmbeddingValues
Query(nq, cells, es) ==
  LET n == MaxSeqLength
      IsTable(i) == i > nq /\ i <= nq + Len(cells)
  IN [segment_ids |-> [k \in 1..n |-> IF IsTable(k - 1) THEN 1 ELSE 0],
      row_ids |-> [k \in 1..n |-> IF IsTable(k - 1) THEN cells[k - 1 - nq][1] ELSE 0],
      column_ids |-> [k \in 1..n |-> IF IsTable(k - 1) THEN cells[k - 1 - nq][2] ELSE 0],
      probabilities |-> [k \in 1..n |-> k],
      embeddings |-> [k \in 1..n |-> [d \in 1..LenEmbedding |-> IF k = 1 THEN 1 ELSE es[k]]]]

Queries ==
  {Query(nq, cells, es) :
     <<nq, cells>> \in
        {<<a, cs>> \in
           UNION {{a} \X [1..b -> Cells] : <<a, b>> \in (0..(MaxSeqLength - 2)) \X (1..(MaxSeqLength - 1))} :
           /\ a + Len(cs) <= MaxSeqLength - 1
           /\ RowMajor(cs)
           /\ \E k \in DOMAIN cs : cs[k][1] >= 1},
     es \in [2..MaxSeqLength -> EmbeddingValues]}

DriverIdle ==
  /\ inputs = {}
  /\ pc = "predict_sequence"
  /\ err = None
  /\ task = "SQA"
  /\ mode = "PREDICT"
  /\ model_dir_made = TRUE
  /\ num_train_steps = NoStep
  /\ latest = NoStep
  /\ checkpoint = NoCheckpoint
  /\ prev_checkpoint = NoCheckpoint
  /\ current_step = NoStep
  /\ todo = <<>>
  /\ files = <<>>
  /\ polls = 0
  /\ sleeps = 0
  /\ predicted = <<>>
  /\ evaluated = {}

\* the rows a probs.npy left in output_dir by an earlier run holds: one row of the
\* given number of columns
OldRows(num_columns) == <<[c \in 1..num_columns |-> 9]>>

\* output_dir before the first call: nothing in this file creates probs.npy, so it
\* is there only when something else put it there, with FLAGS.num_columns columns
\* or with another number of columns
OutputDirs ==
  {<<>>, "probs" :> OldRows(NumColumns), "probs" :> OldRows(NumColumns + 1)}

TableFlags ==
  [num_columns : {NumColumns}, column_order : ColumnOrders,
   max_seq_length : {MaxSeqLength},
   write_prob_table : BOOLEAN, write_embed_table : BOOLEAN]

\* the state at the first table loop of the first call, for a given result
TableStart(queries) ==
  /\ result = queries
  /\ qi = 1
  /\ calls = 0
  /\ query = <<>>
  /\ tphase = "prob"
  /\ result_array = <<>>
  /\ embed_array = <<>>
  /\ num_array = <<>>
  /\ npy \in OutputDirs
  /\ DriverIdle

\* one query, of every layout
InitTable ==
  /\ FLAGS \in TableFlags
  /\ \E q \in Queries : TableStart(<<q>>)

\* np.save(f'{FLAGS.output_dir}/<name>.npy', array): the file is created or replaced
Save(dir, name, array) == (name :> array) @@ dir

\* np.concatenate needs arrays of one column count
SameColumns(old, table) ==
  \A r \in DOMAIN old, t \in DOMAIN table : Len(old[r]) = Len(table[t])

\* a faulty save: the table replaces the rows of the file
ConcatenateNone(old, table) == table
\* np.concatenate((np.load(probs.npy), result_array)): the rows of the file, then
\* the rows of the table
Concatenate(old, table) == old \o table

\* an exception leaves _predict_sequence_for_set and ends the run
RaiseInTable(e) ==
  /\ err' = e
  /\ tphase' = "raised"
  /\ UNCHANGED <<FLAGS, inputs, pc, task, mode, model_dir_made, num_train_steps,
                 latest, checkpoint, prev_checkpoint, current_step, todo, files,
                 polls, sleeps, predicted, evaluated>>

\* if FLAGS.write_prob_table: one turn of "for query in result", the table of the
\* query appended to probs.npy
DumpProbTable ==
  /\ tphase = "prob"
  /\ IF FLAGS.write_prob_table /\ result # <<>>
       THEN /\ query' = result[qi]
            /\ result_array' = ProbTable(query')
            /\ IF "probs" \notin DOMAIN npy
                 THEN /\ RaiseInTable("FileNotFoundError")
                      /\ UNCHANGED <<qi, npy>>
                 ELSE IF ~SameColumns(npy["probs"], result_array')
                 THEN /\ RaiseInTable("ValueError")
                      /\ UNCHANGED <<qi, npy>>
                 ELSE /\ npy' = Save(npy, "probs", Concatenate(npy["probs"], result_array'))
                      /\ IF qi < Len(result)
                           THEN qi' = qi + 1 /\ UNCHANGED tphase
                           ELSE qi' = 1 /\ tphase' = "embed"
                      /\ UNCHANGED driverVars
       ELSE /\ tphase' = "embed"
            /\ UNCHANGED <<driverVars, qi, query, result_array, npy>>
  /\ UNCHANGED <<result, calls, embed_array, num_array>>

\* if FLAGS.write_embed_table: one turn of "for query in result", the embedding
\* table of the query saved to query.npy and embeds.npy
DumpEmbedTable ==
  /\ tphase = "embed"
  /\ IF FLAGS.write_embed_table /\ result # <<>>
       THEN LET st == EmbedTable(result[qi])
            IN /\ query' = result[qi]
               /\ embed_array' = st.embed_array
               /\ num_array' = st.num_array
               /\ result_array' = FlatQuotients(st.embed_array, st.num_array)
               /\ npy' = Save(Save(npy, "query",
                                   VectorQuotient(st.query_array, st.query_array_num)),
                              "embeds", result_array')
               /\ IF qi < Len(result)
                    THEN qi' = qi + 1 /\ UNCHANGED tphase
                    ELSE qi' = 1 /\ tphase' = "written"
       ELSE /\ tphase' = "written"
            /\ UNCHANGED <<qi, query, result_array, embed_array, num_array, npy>>
  /\ UNCHANGED <<driverVars, result, calls>>

\* _predict calls _predict_sequence_for_set again, for the next test set or at the
\* next checkpoint: its locals are new, the files of output_dir stay; the call is
\* followed on the same queries
NextCall ==
  /\ tphase = "written"
  /\ calls + 1 < MaxCalls
  /\ calls' = calls + 1
  /\ tphase' = "prob"
  /\ qi' = 1
  /\ query' = <<>>
  /\ result_array' = <<>>
  /\ embed_array' = <<>>
  /\ num_array' = <<>>
  /\ UNCHANGED <<driverVars, result, npy>>

NextTable ==
  \/ DumpProbTable
  \/ DumpEmbedTable
  \/ NextCall

SpecTable == InitTable /\ [][NextTable]_vars

\* the queries of a result of several, one for every number of table rows: no
\* question tokens, one header token and one token of a cell in the last row; the
\* column and the embedding value of the table tokens change with the row
DumpQueries ==
  {Query(0, <<<<0, (r % NumColumns) + 1>>, <<r, (r % NumColumns) + 1>>>>,
         [k \in 2..MaxSeqLength |-> (r % 2) + 1]) :
     r \in 1..MaxRowId}

\* the results tried: 1..MaxQueries queries
Results == UNION {[1..n -> DumpQueries] : n \in 1..MaxQueries}

\* several queries in one result, and several calls
InitDump ==
  /\ FLAGS \in TableFlags
  /\ \E queries \in Results : TableStart(queries)

SpecDump == InitDump /\ [][NextTable]_vars

(* ======================= claims about the tables ====================== *)
\* the indexes the loops visit: range(1, FLAGS.max_seq_length)
LoopRange == 1..(FLAGS.max_seq_length - 1)

\* result_array is the probability table of query: a turn of the probability loop
\* has bound both and saved the table, and no turn of the embedding loop has rebound them since
HoldsProbTable ==
  /\ FLAGS.write_prob_table
  /\ \/ tphase = "prob" /\ qi > 1
     \/ tphase = "embed" /\ qi = 1

\* embeds.npy and query.npy were saved by the embedding loop's turn for query
HoldsEmbedTable ==
  /\ FLAGS.write_embed_table
  /\ \/ tphase = "embed" /\ qi > 1
     \/ tphase = "written"

\* C9: in the probability table, for every table token that starts a cell with row
\* id r >= 1 and column id c, the token's probability is stored at row r-1 and at
\* the column position column_order[c-1]-1, the position the embedding table uses.
C9_ProbabilityAtColumnOrderPosition ==
  HoldsProbTable =>
     \A i \in LoopRange :
        (StartsCell(query, i) /\ PyAt(query.row_ids, i) >= 1) =>
           PyAt(PyAt(result_array, PyAt(query.row_ids, i) - 1), EmbedColumn(query, i))
             = PyAt(query.probabilities, i)

\* the segment-1 tokens of row id r and column id c
TokensOfCell(q, r, c) ==
  {i \in LoopRange : /\ PyAt(q.segment_ids, i) = 1
                     /\ PyAt(q.row_ids, i) = r
                     /\ PyAt(q.column_ids, i) = c}

RECURSIVE EmbeddingSum(_, _)
EmbeddingSum(q, tokens) ==
  IF tokens = {} THEN ZeroVector(Len(q.embeddings[1]))
  ELSE LET i == CHOOSE t \in tokens : TRUE
       IN VectorAdd(PyAt(q.embeddings, i), EmbeddingSum(q, tokens \ {i}))

\* C10: for every row id r in 1..max(row_ids) and column id c, the embedding-table
\* entry of cell (r, c) is the sum of the embeddings of exactly the segment-1 tokens
\* with row id r and column id c, divided by their number; tokens of other rows,
\* header tokens with row id 0 among them, do not contribute.
C10_EmbeddingAveragePerCell ==
  HoldsEmbedTable =>
     \A r \in 1..SeqMax(query.row_ids), c \in 1..FLAGS.num_columns :
        npy.embeds[(r - 1) * FLAGS.num_columns + FLAGS.column_order[c]]
          = VectorQuotient(EmbeddingSum(query, TokensOfCell(query, r, c)),
                           Cardinality(TokensOfCell(query, r, c)))
(* ==================== claims about the dumped files ================== *)
\* the probability tables of the queries, one after the other
RECURSIVE ProbTables(_)
ProbTables(queries) ==
  IF queries = <<>> THEN <<>>
  ELSE ProbTable(Head(queries)) \o ProbTables(Tail(queries))

RECURSIVE Repeated(_, _)
Repeated(rows, times) ==
  IF times = 0 THEN <<>> ELSE rows \o Repeated(rows, times - 1)

\* the turns the probability loop of the running call has completed
ProbTurns ==
  IF tphase = "prob" \/ tphase = "raised" THEN qi - 1 ELSE Len(result)

\* the turns the embedding loop has completed in the running call, or in the one
\* before it while the running call has not reached that loop
EmbedTurns ==
  IF tphase = "embed" /\ qi > 1 THEN qi - 1
  ELSE IF tphase = "written" \/ calls > 0 THEN Len(result)
  ELSE 0

IsPrefix(old, new) ==
  Len(old) <= Len(new) /\ SubSeq(new, 1, Len(old)) = old

\* probs.npy after the step holds the rows it held before, in their places
ProbsOnlyGrows ==
  IF "probs" \in DOMAIN npy
    THEN "probs" \in DOMAIN npy' /\ IsPrefix(npy["probs"], npy'["probs"])
    ELSE "probs" \notin DOMAIN npy'

\* a turn of the probability loop that saves appends the max(row_ids) rows of its
\* query's table
TurnAppendsTable ==
  (tphase = "prob" /\ FLAGS.write_prob_table /\ tphase' # "raised") =>
     /\ Len(npy'["probs"]) = Len(npy["probs"]) + SeqMax(result[qi].row_ids)
     /\ SubSeq(npy'["probs"], Len(npy["probs"]) + 1, Len(npy'["probs"]))
          = ProbTable(result[qi])

\* every table written so far is in the file, after the rows that were there before
\* the first call, in the order of the turns
EveryTableStays ==
  (FLAGS.write_prob_table /\ "probs" \in DOMAIN npy) =>
     \E dir \in {d \in OutputDirs : "probs" \in DOMAIN d} :
        npy["probs"] = dir["probs"]
                         \o Repeated(ProbTables(result), calls)
                         \o ProbTables(SubSeq(result, 1, ProbTurns))

\* query.npy and embeds.npy hold the values of the last query the embedding loop
\* has processed, and of no other; before its first turn they do not exist
EmbedFilesHoldLastQuery ==
  IF FLAGS.write_embed_table /\ EmbedTurns > 0
    THEN LET st == EmbedTable(result[EmbedTurns])
         IN /\ npy["embeds"] = FlatQuotients(st.embed_array, st.num_array)
            /\ Len(npy["embeds"]) = SeqMax(result[EmbedTurns].row_ids) * FLAGS.num_columns
            /\ npy["query"] = VectorQuotient(st.query_array, st.query_array_num)
    ELSE "embeds" \notin DOMAIN npy /\ "query" \notin DOMAIN npy

====
